---- MODULE Spec2Model ----
(***************************************************************************)
(* A model of src/src/lib.rs: the tree-walking evaluator `eval`, the       *)
(* structural equality of `Value`, the native functions the benchmarks    *)
(* register (`add`, `eq`, `if_`) and the combinator grammar `expr`.       *)
(*                                                                         *)
(* `eval` is a recursive function over the AST that mutates the           *)
(* environment it is handed.  It is modelled by the recursive operator    *)
(* Eval, which returns the derivation of the evaluation: for the node     *)
(* evaluated, the environment on entry (pre), the environment on exit     *)
(* (post), the outcome (st), the value (val) and the derivations of the   *)
(* recursive calls of eval it made, in the order it made them (kids).     *)
(***************************************************************************)
EXTENDS Naturals, Sequences, FiniteSets, TLC

VARIABLES
    env,      \* the caller-owned environment (HashMap<Id, Cow<Value>>)
    deriv,    \* derivation of the last top-level eval on env
    status,   \* "running", or "aborted" once an eval panicked
    text,     \* the source text handed to the parser (sequence of chars)
    result,   \* what expr() made of text
    orig,     \* text and result before whitespace was inserted
    phase,    \* "typing", "parsed", "spaced"
    lhs,      \* PartialEq: left operand
    rhs,      \* PartialEq: right operand
    eqres     \* PartialEq: the comparisons made

vars == <<env, deriv, status, text, result, orig, phase, lhs, rhs, eqres>>
evalVars == <<env, deriv, status>>
parseVars == <<text, result, orig, phase>>
eqVars == <<lhs, rhs, eqres>>

(***************************************************************************)
(* Bounds of the model.                                                    *)
(***************************************************************************)
\* Nested user-function calls the model follows.  The host stack holds far
\* more; an evaluation that nests deeper than this is not an outcome of the
\* model: Eval marks it "deep" and Evaluate does not take it.  The
\* benchmarks stay below it: NESTED_FUNC nests 11 calls, and (rec 0) of
\* REAL_CODE nests 22 (rec and the thunk it picks, for a = 0..10).
MaxDepth == 26
\* Length of the source texts typed into the parser.
MaxLen == 5
\* The chars of the source texts: the scalar values up to this one (Latin-1).
MaxChar == 255

(***************************************************************************)
(* Value<Ident> and Ast<Ident>.                                            *)
(***************************************************************************)
Void == [tag |-> "Void"]
False == [tag |-> "False"]
Int(n) == [tag |-> "Int", n |-> n]
Function(params, body) == [tag |-> "Function", params |-> params, body |-> body]
InbuiltFunc(f) == [tag |-> "InbuiltFunc", f |-> f]

Lit(val) == [node |-> "Lit", val |-> val]
Variable(name) == [node |-> "Variable", name |-> name]
Call(func, arguments) == [node |-> "Call", func |-> func, arguments |-> arguments]
Define(name, value) == [node |-> "Define", name |-> name, value |-> value]

\* No AST: what a failed parse hands back.
NoAst == [node |-> "None"]

\* No value: what a panicking eval hands back (it never returns).
NoValue == [tag |-> "NoValue"]

(***************************************************************************)
(* The environment: HashMap::insert, HashMap::get, HashMap::clone.         *)
(***************************************************************************)
EmptyEnv == [i \in {} |-> Void]

Insert(variables, name, value) ==
    [i \in (DOMAIN variables) \cup {name} |->
        IF i = name THEN value ELSE variables[i]]

Bound(variables, name) == name \in DOMAIN variables

Min(a, b) == IF a <= b THEN a ELSE b

(***************************************************************************)
(* PartialEq for Value.                                                    *)
(***************************************************************************)
ValueEqDerived(self, other) == self = other

ValueEq(self, other) ==
    CASE self.tag = "Void" /\ other.tag = "Void" -> TRUE
      [] self.tag = "False" /\ other.tag = "False" -> TRUE
      [] self.tag = "Int" /\ other.tag = "Int" -> self.n = other.n
      [] OTHER -> FALSE

(***************************************************************************)
(* The native functions of the benchmarks.  Each takes the slice of        *)
(* argument values and gives [st, val]; st is "panic" where the Rust       *)
(* function panics.                                                        *)
(***************************************************************************)
RECURSIVE SumInts(_, _)
SumInts(variables, k) ==
    IF k > Len(variables) THEN 0
    ELSE (IF variables[k].tag = "Int" THEN variables[k].n ELSE 0)
         + SumInts(variables, k + 1)

add(variables) == [st |-> "ok", val |-> Int(SumInts(variables, 1))]

eq(variables) ==
    IF Len(variables) = 0 THEN [st |-> "ok", val |-> Void]
    ELSE IF \E k \in 2..Len(variables) : ~ValueEq(variables[k], variables[1])
         THEN [st |-> "ok", val |-> False]
         ELSE [st |-> "ok", val |-> Void]

if_(variables) ==
    IF Len(variables) < 2 \/ Len(variables) > 3
    THEN [st |-> "panic", val |-> NoValue]
    ELSE IF variables[1].tag = "False"
         THEN [st |-> "ok",
               val |-> IF Len(variables) = 3 THEN variables[3] ELSE Void]
         ELSE [st |-> "ok", val |-> variables[2]]

\* func(&arg_refs): the call through the fn pointer an InbuiltFunc holds.
ApplyNative(f, arg_refs) ==
    CASE f = "add" -> add(arg_refs)
      [] f = "eq" -> eq(arg_refs)
      [] f = "if" -> if_(arg_refs)

(***************************************************************************)
(* eval.                                                                   *)
(***************************************************************************)
\* The derivation of one call of eval.
Ret(program, pre, post, st, val, kids, invoked, diag) ==
    [node |-> program, pre |-> pre, post |-> post, st |-> st, val |-> val,
     kids |-> kids, invoked |-> invoked, diag |-> diag]

\* An eval that does not return: a panic below it or in it.
Abort(program, pre, post, st, kids) ==
    Ret(program, pre, post, st, NoValue, kids, <<>>, <<>>)

\* A Function call that does not return.  Its println! of the argument count
\* ran before the first argument was evaluated, so the line was printed.
AbortCall(program, pre, post, st, kids, diag) ==
    Ret(program, pre, post, st, NoValue, kids, <<>>, diag)

NoDeriv == Ret(NoAst, EmptyEnv, EmptyEnv, "none", NoValue, <<>>, <<>>, <<>>)

\* Variable(name) with no binding: panic!("Variable does not exist").
VariableMissingVoid(program, variables) ==
    Ret(program, variables, variables, "ok", Void, <<>>, <<>>, <<>>)

VariableMissing(program, variables) ==
    Abort(program, variables, variables, "panic", <<>>)

\* The callee is no Function and no InbuiltFunc:
\* panic!("Attempted to call a non-function").
NonFunction(program, variables, fr) ==
    Abort(program, variables, fr.post, "panic", <<fr>>)

\* let mut new_scope = variables.clone();
NewScopeFresh(variables) == EmptyEnv

NewScope(variables) == variables

\* args.into_iter().zip(arguments): the pairs the loop runs over.
ZipLenStrict(args, arguments) ==
    IF Len(args) = Len(arguments) THEN Len(args) ELSE 0

ZipLen(args, arguments) == Min(Len(args), Len(arguments))

\* new_scope.insert(name.clone(), val);
BindParam(new_scope, name, val) == Insert(new_scope, name, val)

\* The println! of the argument-count mismatch: a diagnostic, no abort.
ArityDiagnostic(args, arguments) ==
    IF Len(arguments) # Len(args)
    THEN <<[expected |-> Len(args), got |-> Len(arguments)]>>
    ELSE <<>>

\* args.iter().map(|v| v.as_ref()).collect(): the slice handed to the native.
RECURSIVE Reverse(_)
Reverse(s) == IF s = <<>> THEN <<>> ELSE Append(Reverse(Tail(s)), Head(s))

ArgRefsReversed(args) == Reverse(args)

ArgRefs(args) == args

\* The host stack, as the model sees it: `calls` holds, innermost last, the
\* calls of user functions whose bodies are running, each as the Call and
\* the environment eval was entered with.
NoCalls == <<>>

Enter(program, variables, calls) == Append(calls, <<program, variables>>)

\* eval is a function of the program and the environment.  A call made
\* while the same call with the same environment is running makes that call
\* again, without end: the recursion exhausts the stack, whatever its size.
Recurs(program, variables, calls) ==
    \E k \in 1..Len(calls) : calls[k] = <<program, variables>>

RECURSIVE Eval(_, _, _)
RECURSIVE EvalArgs(_, _, _, _, _, _, _)
RECURSIVE EvalBody(_, _, _, _, _, _, _, _, _, _)
RECURSIVE EvalBodyFresh(_, _, _, _, _, _, _, _, _, _)
RECURSIVE EvalEach(_, _, _, _)

\* for (name, val) in args.into_iter().zip(arguments) { ... }
\* Each argument is evaluated in `variables`, its value bound in new_scope.
EvalArgs(args, arguments, n, k, variables, new_scope, calls) ==
    IF k > n
    THEN [st |-> "ok", env |-> variables, scope |-> new_scope, kids |-> <<>>]
    ELSE LET r == Eval(arguments[k], variables, calls)
         IN  IF r.st # "ok"
             THEN [st |-> r.st, env |-> r.post, scope |-> new_scope, kids |-> <<r>>]
             ELSE LET rest == EvalArgs(args, arguments, n, k + 1, r.post,
                                       BindParam(new_scope, args[k], r.val), calls)
                  IN  [rest EXCEPT !.kids = <<r>> \o @]

\* A call that writes the scope of its body back to the caller.
CallReturnLeak(program, pre, post, scope, out, kids, diag) ==
    Ret(program, pre, scope, "ok", out, kids, <<>>, diag)

\* Cow::Owned(out.into_owned()): the call returns the value of the last
\* statement; new_scope is dropped, and `variables` (post) is as the
\* arguments left it.
CallReturn(program, pre, post, scope, out, kids, diag) ==
    Ret(program, pre, post, "ok", out, kids, <<>>, diag)

\* A body whose every statement starts from the scope the call started with.
EvalBodyFresh(program, pre, post, diag, body, k, scope, out, kids, calls) ==
    IF k > Len(body)
    THEN CallReturn(program, pre, post, scope, out, kids, diag)
    ELSE LET r == Eval(body[k], scope, calls)
         IN  IF r.st # "ok"
             THEN AbortCall(program, pre, post, r.st, Append(kids, r), diag)
             ELSE EvalBodyFresh(program, pre, post, diag, body, k + 1, scope,
                                r.val, Append(kids, r), calls)

\* let mut out = Cow::Owned(Void);
\* for stmt in body.iter() { out = eval(&stmt, &mut new_scope); }
\* Cow::Owned(out.into_owned())
\* The loop from statement k on, for the call `program` entered with `pre`,
\* whose callee and arguments left the caller's environment as `post` and
\* gave the derivations `kids`; its value is the derivation of the call.
EvalBody(program, pre, post, diag, body, k, scope, out, kids, calls) ==
    IF k > Len(body)
    THEN CallReturn(program, pre, post, scope, out, kids, diag)
    ELSE LET r == Eval(body[k], scope, calls)
         IN  IF r.st # "ok"
             THEN AbortCall(program, pre, post, r.st, Append(kids, r), diag)
             ELSE EvalBody(program, pre, post, diag, body, k + 1, r.post,
                           r.val, Append(kids, r), calls)

\* arguments.iter().map(|ast| eval(ast, variables)).collect::<Vec<_>>()
EvalEach(arguments, k, variables, calls) ==
    IF k > Len(arguments)
    THEN [st |-> "ok", env |-> variables, vals |-> <<>>, kids |-> <<>>]
    ELSE LET r == Eval(arguments[k], variables, calls)
         IN  IF r.st # "ok"
             THEN [st |-> r.st, env |-> r.post, vals |-> <<>>, kids |-> <<r>>]
             ELSE LET rest == EvalEach(arguments, k + 1, r.post, calls)
                  IN  [rest EXCEPT !.kids = <<r>> \o @, !.vals = <<r.val>> \o @]

\* A Function call that clones the scope after the arguments are evaluated.
CallFunctionLateClone(program, variables, fr, calls) ==
    LET args == fr.val.params
        diag == ArityDiagnostic(args, program.arguments)
        n == ZipLen(args, program.arguments)
        ar == EvalArgs(args, program.arguments, n, 1, fr.post, EmptyEnv, calls)
        late == [i \in (DOMAIN ar.env) \cup (DOMAIN ar.scope) |->
                    IF i \in DOMAIN ar.scope THEN ar.scope[i] ELSE ar.env[i]]
    IN  CASE ar.st # "ok" ->
                AbortCall(program, variables, ar.env, ar.st, <<fr>> \o ar.kids, diag)
          [] ar.st = "ok" /\ Recurs(program, variables, calls) ->
                AbortCall(program, variables, ar.env, "overflow",
                          <<fr>> \o ar.kids, diag)
          [] ar.st = "ok" /\ ~Recurs(program, variables, calls)
                /\ Len(calls) >= MaxDepth ->
                AbortCall(program, variables, ar.env, "deep",
                          <<fr>> \o ar.kids, diag)
          [] OTHER ->
                EvalBody(program, variables, ar.env, diag, fr.val.body, 1, late,
                         Void, <<fr>> \o ar.kids,
                         Enter(program, variables, calls))

\* Function(ref args, ref body) => { ... }: the scope is cloned, the argument
\* count is compared (and the line printed), the arguments are evaluated and
\* bound, and the body is run.  A call that recurs never returns: the host
\* stack is exhausted.
CallFunction(program, variables, fr, calls) ==
    LET args == fr.val.params
        new_scope == NewScope(fr.post)
        diag == ArityDiagnostic(args, program.arguments)
        n == ZipLen(args, program.arguments)
        ar == EvalArgs(args, program.arguments, n, 1, fr.post, new_scope, calls)
    IN  CASE ar.st # "ok" ->
                AbortCall(program, variables, ar.env, ar.st, <<fr>> \o ar.kids, diag)
          [] ar.st = "ok" /\ Recurs(program, variables, calls) ->
                AbortCall(program, variables, ar.env, "overflow",
                          <<fr>> \o ar.kids, diag)
          [] ar.st = "ok" /\ ~Recurs(program, variables, calls)
                /\ Len(calls) >= MaxDepth ->
                AbortCall(program, variables, ar.env, "deep",
                          <<fr>> \o ar.kids, diag)
          [] OTHER ->
                EvalBody(program, variables, ar.env, diag, fr.val.body, 1,
                         ar.scope, Void, <<fr>> \o ar.kids,
                         Enter(program, variables, calls))

\* InbuiltFunc(ref func) => { ... }
CallInbuilt(program, variables, fr, calls) ==
    LET ea == EvalEach(program.arguments, 1, fr.post, calls)
        kids == <<fr>> \o ea.kids
    IN  IF ea.st # "ok"
        THEN Abort(program, variables, ea.env, ea.st, kids)
        ELSE LET arg_refs == ArgRefs(ea.vals)
                 res == ApplyNative(fr.val.f, arg_refs)
                 invoked == <<[f |-> fr.val.f, args |-> arg_refs]>>
             IN  Ret(program, variables, ea.env, res.st, res.val, kids,
                     invoked, <<>>)

\* A Define that binds the name in a copy, which is dropped.
EvalDefineCopy(program, variables, calls) ==
    LET value == Eval(program.value, variables, calls)
    IN  IF value.st # "ok"
        THEN Abort(program, variables, value.post, value.st, <<value>>)
        ELSE Ret(program, variables, value.post, "ok", Void, <<value>>, <<>>, <<>>)

\* Define(ref name, ref value) => { ... }
EvalDefine(program, variables, calls) ==
    LET value == Eval(program.value, variables, calls)
    IN  IF value.st # "ok"
        THEN Abort(program, variables, value.post, value.st, <<value>>)
        ELSE Ret(program, variables, Insert(value.post, program.name, value.val),
                 "ok", Void, <<value>>, <<>>, <<>>)

\* match *program { Lit, Variable, Call, Define }; fr is the callee of a
\* Call, evaluated first: let func = eval(&*func, variables);
Eval(program, variables, calls) ==
    LET fr == Eval(program.func, variables, calls)
    IN  CASE program.node = "Lit" ->
                Ret(program, variables, variables, "ok", program.val, <<>>, <<>>, <<>>)
          [] program.node = "Variable" /\ Bound(variables, program.name) ->
                Ret(program, variables, variables, "ok",
                    variables[program.name], <<>>, <<>>, <<>>)
          [] program.node = "Variable" /\ ~Bound(variables, program.name) ->
                VariableMissing(program, variables)
          [] program.node = "Define" -> EvalDefine(program, variables, calls)
          [] program.node = "Call" /\ fr.st # "ok" ->
                Abort(program, variables, fr.post, fr.st, <<fr>>)
          [] program.node = "Call" /\ fr.st = "ok" /\ fr.val.tag = "Function" ->
                CallFunction(program, variables, fr, calls)
          [] program.node = "Call" /\ fr.st = "ok" /\ fr.val.tag = "InbuiltFunc" ->
                CallInbuilt(program, variables, fr, calls)
          [] program.node = "Call" /\ fr.st = "ok"
                /\ fr.val.tag \notin {"Function", "InbuiltFunc"} ->
                NonFunction(program, variables, fr)

(***************************************************************************)
(* The programs evaluated: top-level expressions, as expr() parses them.   *)
(* Identifiers stand for their hash_string keys.                           *)
(***************************************************************************)
\* (= x 5)
DefX5 == Define("x", Lit(Int(5)))
\* (= x 7)
DefX7 == Define("x", Lit(Int(7)))
\* x
VarX == Variable("x")
\* (= y 2)
DefY2 == Define("y", Lit(Int(2)))
\* y
VarY == Variable("y")
\* ((\(x) x) 7)
Identity7 == Call(Lit(Function(<<"x">>, <<Variable("x")>>)), <<Lit(Int(7))>>)
\* ((\(a) (= y a) (add a y)) 3)
SeqDef3 ==
    Call(Lit(Function(<<"a">>,
                      <<Define("y", Variable("a")),
                        Call(Variable("add"), <<Variable("a"), Variable("y")>>)>>)),
         <<Lit(Int(3))>>)
\* ((\(a b) a) 7)
FewArgs == Call(Lit(Function(<<"a", "b">>, <<Variable("a")>>)), <<Lit(Int(7))>>)
\* ((\(a) a) 1 (= x 9))
ManyArgs ==
    Call(Lit(Function(<<"a">>, <<Variable("a")>>)),
         <<Lit(Int(1)), Define("x", Lit(Int(9)))>>)
\* ((\(a a) a) 1 2)
DupParam ==
    Call(Lit(Function(<<"a", "a">>, <<Variable("a")>>)), <<Lit(Int(1)), Lit(Int(2))>>)
\* (= g (\() y))
DefG == Define("g", Lit(Function(<<>>, <<Variable("y")>>)))
\* (g)
CallG == Call(Variable("g"), <<>>)
\* ((\(y) (g)) 9)
CallGWithY == Call(Lit(Function(<<"y">>, <<CallG>>)), <<Lit(Int(9))>>)
\* ((\(a) (g)) ((\(y) (g)) 9))
CallGTwice == Call(Lit(Function(<<"a">>, <<CallG>>)), <<CallGWithY>>)
\* (x)
CallX == Call(Variable("x"), <<>>)
\* (((\())))
CallVoid == Call(Call(Lit(Function(<<>>, <<>>)), <<>>), <<>>)
\* (#f)
CallFalse == Call(Lit(False), <<>>)
\* (add (= x 5) x)
NativeOrder == Call(Variable("add"), <<Define("x", Lit(Int(5))), Variable("x")>>)
\* ((\(a) y) (= y 4))
ArgDefine ==
    Call(Lit(Function(<<"a">>, <<Variable("y")>>)), <<Define("y", Lit(Int(4)))>>)
\* ((if (= x 7) (\() x)))
CalleeDefine ==
    Call(Call(Variable("if"),
              <<Define("x", Lit(Int(7))), Lit(Function(<<>>, <<Variable("x")>>))>>),
         <<>>)
\* REAL_CODE: (= rec (\ (a) ((if (eq a 10) (\() 10) (\() (rec (add a 1)))))))
DefRec ==
    Define("rec",
        Lit(Function(<<"a">>,
            <<Call(Call(Variable("if"),
                        <<Call(Variable("eq"), <<Variable("a"), Lit(Int(10))>>),
                          Lit(Function(<<>>, <<Lit(Int(10))>>)),
                          Lit(Function(<<>>,
                              <<Call(Variable("rec"),
                                     <<Call(Variable("add"),
                                            <<Variable("a"), Lit(Int(1))>>)>>)>>))>>),
                   <<>>)>>)))
\* REAL_CODE: (rec 0)
CallRec == Call(Variable("rec"), <<Lit(Int(0))>>)
\* (= rec (\() (rec))): applied, it recurs until the stack is exhausted.
DefLoop == Define("rec", Lit(Function(<<>>, <<Call(Variable("rec"), <<>>)>>)))
\* (eq x y)
EqXY == Call(Variable("eq"), <<Variable("x"), Variable("y")>>)

\* NESTED_FUNC: ((\(val) ((\(val) .. ((\(val) val) val) ..) val)) #f), the
\* call nested n deep around `inner`.
\* Written out as records, it is
\* Call(Lit(Function(<<"val">>, <<Nest(n - 1, Variable("val"))>>)), <<inner>>).
RECURSIVE Nest(_, _)
Nest(n, inner) ==
    IF n = 0 THEN inner
    ELSE [node |-> "Call",
          func |-> [node |-> "Lit",
                    val |-> [tag |-> "Function", params |-> <<"val">>,
                             body |-> <<Nest(n - 1, Variable("val"))>>]],
          arguments |-> <<inner>>]

NestedFunc == Nest(11, Lit(False))

Programs ==
    {DefX5, DefX7, VarX, DefY2, VarY, Identity7, SeqDef3, FewArgs, ManyArgs,
     DupParam, DefG, CallG, CallGWithY, CallGTwice, CallX, CallVoid, CallFalse,
     NativeOrder, ArgDefine, CalleeDefine, DefRec, CallRec, DefLoop, EqXY,
     NestedFunc}

(***************************************************************************)
(* The host: it builds the environment, then evaluates top-level           *)
(* expressions against it, one after another.                              *)
(***************************************************************************)
\* run_nested_func: let mut env = IntMap::default();
NoNatives == EmptyEnv

\* run_real_code: eq, add and if inserted under their names.
RealCodeEnv ==
    Insert(Insert(Insert(EmptyEnv, "eq", InbuiltFunc("eq")),
                  "add", InbuiltFunc("add")),
           "if", InbuiltFunc("if"))

\* Nothing parsed yet, nothing compared yet.
NoResult == [ok |-> FALSE, c |-> FALSE, v |-> NoAst, i |-> 1]
NoComparison ==
    [done |-> FALSE, ab |-> FALSE, ba |-> FALSE, aa |-> FALSE, native |-> Void]

\* for line in &program { black_box(eval(line, &mut env)); }
\* A panic or an exhausted stack ends the process: nothing is evaluated
\* after it.  A line that nests deeper than MaxDepth is not evaluated.
Evaluate(program) ==
    /\ status = "running"
    /\ LET r == Eval(program, env, NoCalls)
       IN  /\ r.st # "deep"
           /\ deriv' = r
           /\ env' = r.post
           /\ status' = IF r.st = "ok" THEN "running" ELSE "aborted"
    /\ UNCHANGED <<parseVars, eqVars>>

Init ==
    /\ env \in {NoNatives, RealCodeEnv}
    /\ deriv = NoDeriv
    /\ status = "running"
    /\ text = <<>>
    /\ result = NoResult
    /\ orig = [text |-> <<>>, result |-> NoResult]
    /\ phase = "typing"
    /\ lhs = Void
    /\ rhs = Void
    /\ eqres = NoComparison

Next == \E program \in Programs : Evaluate(program)

Spec == Init /\ [][Next]_vars

(***************************************************************************)
(* The grammar expr(), written with combine's parsers.  A parser gives     *)
(* [ok, c, v, i]: whether it succeeded, whether it consumed input (an     *)
(* error after consuming is final: `or` tries its next alternative and    *)
(* `many` stops only on an error that consumed nothing), the value, and   *)
(* the position of the first character not consumed.                      *)
(***************************************************************************)
\* A char is its Unicode scalar value; a text is a sequence of chars.
\* CodePoint gives the scalar value of the characters the grammar and the
\* typed texts name.
CodePoint(c) ==
    CASE c = "(" -> 40 [] c = ")" -> 41 [] c = "\\" -> 92 [] c = "=" -> 61
      [] c = "#" -> 35 [] c = "f" -> 102 [] c = "1" -> 49 [] c = " " -> 32
      [] c = "NBSP" -> 160

Alphabet ==
    {CodePoint("("), CodePoint(")"), CodePoint("\\"), CodePoint("="),
     CodePoint(" "), CodePoint("NBSP"), CodePoint("f"), CodePoint("1"),
     CodePoint("#")}

\* char::is_whitespace: the code points with the Unicode property
\* White_Space (U+0009..U+000D, U+0020, U+0085, U+00A0, U+1680,
\* U+2000..U+200A, U+2028, U+2029, U+202F, U+205F, U+3000).
IsWhitespace(ch) ==
    \/ ch \in 9..13
    \/ ch \in {32, 133, 160, 5760, 8232, 8233, 8239, 8287, 12288}
    \/ ch \in 8192..8202

\* The table behind char::is_alphabetic above U+007F: the code points with
\* the Unicode property Alphabetic, as the flat sequence first1, last1,
\* first2, last2, ... of its ranges.  Only the head of the table is kept,
\* down to the range U+00F8..U+02C1, which holds the last char of the model;
\* how the table goes on depends on the Unicode version of the toolchain.
AlphabeticRanges ==
    <<170, 170,   181, 181,   186, 186,   192, 214,   216, 246,   248, 705>>

\* char::is_alphabetic: 'a'..='z' | 'A'..='Z', or above U+007F and Alphabetic.
\* It is defined for the chars of the model, those up to MaxChar.
IsAlphabetic(ch) ==
    CASE ch <= 127 -> ch \in 97..122 \/ ch \in 65..90
      [] ch > 127 /\ ch <= MaxChar ->
            \E i \in 1..(Len(AlphabeticRanges) \div 2) :
                AlphabeticRanges[2 * i - 1] <= ch /\ ch <= AlphabeticRanges[2 * i]

\* digit(): an ASCII decimal digit.
IsDigit(ch) == ch \in 48..57

\* ch.to_digit(10)
DigitValue(ch) == ch - 48

\* The character at position i; past the end of the input, 1114112, which
\* is above every scalar value (no predicate holds of it).
At(s, i) == IF i >= 1 /\ i <= Len(s) THEN s[i] ELSE 1114112

Ok(v, i) == [ok |-> TRUE, c |-> TRUE, v |-> v, i |-> i]
Fail(c, i) == [ok |-> FALSE, c |-> c, v |-> NoAst, i |-> i]

\* The key of an identifier: the SipHash of its spelling, kept as the
\* spelling under a tag (distinct spellings of the model do not collide).
hash_string(x) == [siphash |-> x]

\* i.parse(): the decimal value of a run of digits.  (A run beyond u64 makes
\* expect() panic; runs of at most MaxLen digits stay far below that.)
RECURSIVE ParseU64(_, _)
ParseU64(digits, k) ==
    IF k = 0 THEN 0
    ELSE 10 * ParseU64(digits, k - 1) + DigitValue(digits[k])

\* skip_many(satisfy(char::is_whitespace)): the position after the run.
RECURSIVE SkipWhite(_, _)
SkipWhite(s, i) == IF IsWhitespace(At(s, i)) THEN SkipWhite(s, i + 1) ELSE i

RECURSIVE AlphaEnd(_, _)
AlphaEnd(s, i) ==
    IF i <= Len(s) /\ IsAlphabetic(s[i]) THEN AlphaEnd(s, i + 1) ELSE i

RECURSIVE DigitEnd(_, _)
DigitEnd(s, i) == IF IsDigit(At(s, i)) THEN DigitEnd(s, i + 1) ELSE i

\* p1.or(p2), given the result of p1 and that of p2 at the same position.
Or(r1, r2) == IF r1.ok \/ r1.c THEN r1 ELSE r2

\* white!(string("#f")).map(|_| Ast::Lit(Value::False))
flse(s, i) ==
    LET i1 == SkipWhite(s, i)
    IN  IF At(s, i1) # CodePoint("#") THEN Fail(i1 > i, i)
        ELSE IF At(s, i1 + 1) # CodePoint("f") THEN Fail(TRUE, i)
        ELSE Ok(Lit(False), SkipWhite(s, i1 + 2))

\* many1(digit()).map(|i| Ast::Lit(Value::Int(i.parse().expect(..))))
lit_num(s, i) ==
    LET i2 == DigitEnd(s, i)
    IN  IF i2 = i THEN Fail(FALSE, i)
        ELSE Ok(Lit(Int(ParseU64(SubSeq(s, i, i2 - 1), i2 - i))), i2)

\* white!(take_while1(|c: char| c.is_alphabetic())).map(hash_string)
ident(s, i) ==
    LET i1 == SkipWhite(s, i)
        i2 == AlphaEnd(s, i1)
    IN  IF i2 = i1 THEN Fail(i1 > i, i)
        ELSE Ok(hash_string(SubSeq(s, i1, i2 - 1)), SkipWhite(s, i2))

RECURSIVE expr(_, _)
RECURSIVE ManyExpr(_, _)
RECURSIVE ManyIdent(_, _)

\* many::<Vec<_>, _>(ident())
ManyIdent(s, i) ==
    LET r == ident(s, i)
    IN  IF r.ok
        THEN LET rest == ManyIdent(s, r.i)
             IN  IF rest.ok THEN Ok(<<r.v>> \o rest.v, rest.i) ELSE Fail(TRUE, i)
        ELSE IF r.c THEN Fail(TRUE, i)
        ELSE [ok |-> TRUE, c |-> FALSE, v |-> <<>>, i |-> i]

\* many::<Vec<_>, _>(expr())
ManyExpr(s, i) ==
    LET r == expr(s, i)
    IN  IF r.ok
        THEN LET rest == ManyExpr(s, r.i)
             IN  IF rest.ok THEN Ok(<<r.v>> \o rest.v, rest.i) ELSE Fail(TRUE, i)
        ELSE IF r.c THEN Fail(TRUE, i)
        ELSE [ok |-> TRUE, c |-> FALSE, v |-> <<>>, i |-> i]

\* (white!(lambda), white!(between(char('('), char(')'), many(ident()))),
\*  many(expr())).map(|(_, a, b)| Ast::Lit(Value::Function(a, b)))
function(s, i) ==
    LET i1 == SkipWhite(s, i)
    IN  IF At(s, i1) # CodePoint("\\") THEN Fail(i1 > i, i)
        ELSE LET i2 == SkipWhite(s, SkipWhite(s, i1 + 1))
             IN  IF At(s, i2) # CodePoint("(") THEN Fail(TRUE, i)
                 ELSE LET a == ManyIdent(s, i2 + 1)
                      IN  IF ~a.ok \/ At(s, a.i) # CodePoint(")") THEN Fail(TRUE, i)
                          ELSE LET b == ManyExpr(s, SkipWhite(s, a.i + 1))
                               IN  IF ~b.ok THEN Fail(TRUE, i)
                                   ELSE Ok(Lit(Function(a.v, b.v)), b.i)

\* (white!(eq), ident(), expr()).map(|(_, a, b)| Ast::Define(a, Box::new(b)))
define(s, i) ==
    LET i1 == SkipWhite(s, i)
    IN  IF At(s, i1) # CodePoint("=") THEN Fail(i1 > i, i)
        ELSE LET a == ident(s, SkipWhite(s, i1 + 1))
             IN  IF ~a.ok THEN Fail(TRUE, i)
                 ELSE LET b == expr(s, a.i)
                      IN  IF ~b.ok THEN Fail(TRUE, i)
                          ELSE Ok(Define(a.v, b.v), b.i)

\* (expr(), many(expr())).map(|(func, args)| Ast::Call(Box::new(func), args))
call(s, i) ==
    LET func == expr(s, i)
    IN  IF ~func.ok THEN Fail(func.c, i)
        ELSE LET args == ManyExpr(s, func.i)
             IN  IF ~args.ok THEN Fail(TRUE, i)
                 ELSE Ok(Call(func.v, args.v), args.i)

\* between(char('('), char(')'), choice!(function, define, call))
parens(s, i) ==
    IF At(s, i) # CodePoint("(") THEN Fail(FALSE, i)
    ELSE LET inner == Or(function(s, i + 1), Or(define(s, i + 1), call(s, i + 1)))
         IN  IF ~inner.ok \/ At(s, inner.i) # CodePoint(")") THEN Fail(TRUE, i)
             ELSE Ok(inner.v, inner.i + 1)

\* white!(choice!(flse, lit_num, ident().map(Ast::Variable), between(..)))
expr(s, i) ==
    LET i1 == SkipWhite(s, i)
        id == ident(s, i1)
        r == Or(flse(s, i1),
                Or(lit_num(s, i1),
                   Or(IF id.ok THEN Ok(Variable(id.v), id.i) ELSE id,
                      parens(s, i1))))
    IN  IF ~r.ok THEN Fail(i1 > i \/ r.c, i)
        ELSE Ok(r.v, SkipWhite(s, r.i))

\* expr().easy_parse(text)
Parse(s) == expr(s, 1)

(***************************************************************************)
(* Reading a derivation.                                                   *)
(***************************************************************************)
\* The evaluations of a derivation, each named by its path from the root:
\* <<k1, .., kn>> is kid kn of .. of kid k1 of t.
RECURSIVE Paths(_)
Paths(t) ==
    {<<>>} \cup UNION {{<<k>> \o p : p \in Paths(t.kids[k])} : k \in DOMAIN t.kids}

RECURSIVE Sub(_, _)
Sub(t, p) == IF p = <<>> THEN t ELSE Sub(t.kids[Head(p)], Tail(p))

\* e1 and e2 have the same binding, or none, for id.
Agree(e1, e2, id) ==
    /\ Bound(e1, id) <=> Bound(e2, id)
    /\ Bound(e1, id) => e1[id] = e2[id]

AllOk(kids) == \A k \in DOMAIN kids : kids[k].st = "ok"

\* t is a Call whose callee evaluated to a user Function.
FnCall(t) ==
    /\ t.node.node = "Call"
    /\ Len(t.kids) >= 1
    /\ t.kids[1].st = "ok"
    /\ t.kids[1].val.tag = "Function"

\* t is a Call whose callee evaluated to an InbuiltFunc.
NativeCall(t) ==
    /\ t.node.node = "Call"
    /\ Len(t.kids) >= 1
    /\ t.kids[1].st = "ok"
    /\ t.kids[1].val.tag = "InbuiltFunc"

Params(t) == t.kids[1].val.params
Body(t) == t.kids[1].val.body
NParams(t) == Len(Params(t))
NArguments(t) == Len(t.node.arguments)
\* min(p, a): the overlapping prefix of parameters and arguments.
Overlap(t) == IF NParams(t) <= NArguments(t) THEN NParams(t) ELSE NArguments(t)
BoundParams(t) == {Params(t)[k] : k \in 1..Overlap(t)}

\* The callee and the overlapping arguments were all evaluated, and returned.
ArgsDone(t) ==
    /\ Len(t.kids) >= 1 + Overlap(t)
    /\ \A k \in 1..(1 + Overlap(t)) : t.kids[k].st = "ok"

\* The caller's environment when the callee has been evaluated.
CallTimeEnv(t) == t.kids[1].post
\* The caller's environment when the arguments have been evaluated.
EnvAfterArgs(t) == t.kids[1 + Overlap(t)].post
\* The evaluations of the body's statements.
BodyKids(t) == SubSeq(t.kids, 2 + Overlap(t), Len(t.kids))

\* e with the first n parameters bound, in order, to the values of the
\* first n argument evaluations of t.
RECURSIVE BindPrefix(_, _, _, _)
BindPrefix(e, t, k, n) ==
    IF k > n THEN e
    ELSE BindPrefix([i \in (DOMAIN e) \cup {Params(t)[k]} |->
                        IF i = Params(t)[k] THEN t.kids[1 + k].val ELSE e[i]],
                    t, k + 1, n)

\* The identifiers a Define bound while the body of t was evaluated.
DefinesIn(b) ==
    {Sub(b, p).node.name :
        p \in {q \in Paths(b) : Sub(b, q).node.node = "Define" /\ Sub(b, q).st = "ok"}}

BodyDefines(t) == UNION {DefinesIn(BodyKids(t)[j]) : j \in DOMAIN BodyKids(t)}

(***************************************************************************)
(* C1. Scope isolation: when a Call of a user Function returns, the        *)
(* caller's environment is as the evaluation of the callee and of the     *)
(* arguments left it; no Define executed in the body changed it.  An      *)
(* identifier a body Define bound, and that the callee and the arguments  *)
(* did not touch, is unbound after the call if it was unbound before, and *)
(* keeps its pre-call value if it was bound.                              *)
(***************************************************************************)
C1_ScopeIsolation ==
    \A p \in Paths(deriv) : LET t == Sub(deriv, p) IN
        (FnCall(t) /\ t.st = "ok") =>
            /\ ArgsDone(t)
            /\ t.post = EnvAfterArgs(t)
            /\ \A id \in BodyDefines(t) :
                  Agree(EnvAfterArgs(t), t.pre, id) =>
                      /\ ~Bound(t.pre, id) => ~Bound(t.post, id)
                      /\ Bound(t.pre, id) =>
                            Bound(t.post, id) /\ t.post[id] = t.pre[id]

\* A call returned whose body defined an identifier unbound in the caller,
\* and it is unbound in the caller's environment afterwards.
C1_Witness ==
    \E p \in Paths(deriv) : LET t == Sub(deriv, p) IN
        /\ FnCall(t) /\ t.st = "ok"
        /\ \E id \in BodyDefines(t) : ~Bound(t.pre, id) /\ ~Bound(t.post, id)
        /\ deriv = t /\ \E id \in BodyDefines(t) : ~Bound(env, id)

\* Dynamic scope at one evaluation t of a derivation.
C2_At(t) ==
        /\ (t.node.node = "Variable" /\ Bound(t.pre, t.node.name)) =>
              t.st = "ok" /\ t.val = t.pre[t.node.name]
        /\ (FnCall(t) /\ ArgsDone(t) /\ t.st # "overflow" /\ Len(Body(t)) >= 1) =>
              /\ Len(BodyKids(t)) >= 1
              /\ \A id \in (DOMAIN CallTimeEnv(t)) \cup (DOMAIN BodyKids(t)[1].pre) :
                    id \notin BoundParams(t) =>
                        Agree(BodyKids(t)[1].pre, CallTimeEnv(t), id)
              /\ (/\ Body(t)[1].node = "Variable"
                  /\ Body(t)[1].name \notin BoundParams(t)
                  /\ Bound(CallTimeEnv(t), Body(t)[1].name)) =>
                    /\ BodyKids(t)[1].st = "ok"
                    /\ BodyKids(t)[1].val = CallTimeEnv(t)[Body(t)[1].name]

(***************************************************************************)
(* C2. Dynamic scope: the body of a user Function starts in the caller's   *)
(* environment as it is at the call, except for the bound parameters, and *)
(* a Variable resolves in the environment it is evaluated in.  So a body  *)
(* statement that is a free identifier yields the caller's value at the   *)
(* call, whatever it was where the function literal was evaluated.  A     *)
(* function may call itself by the name bound after its literal was       *)
(* evaluated: (rec 0) of REAL_CODE yields 10.                             *)
(***************************************************************************)
C2_DynamicScope ==
    /\ \A p \in Paths(deriv) : C2_At(Sub(deriv, p))
    /\ (/\ deriv.node = CallRec
        /\ \A id \in DOMAIN RealCodeEnv : Bound(deriv.pre, id)
        /\ Bound(deriv.pre, "rec") /\ deriv.pre["rec"] = DefRec.value.val) =>
          deriv.st = "ok" /\ deriv.val = Int(10)

\* The same Function value, whose body is a free identifier, was called
\* from two environments binding it to different Ints, and gave those.
C2_Witness ==
    \E p1 \in Paths(deriv), p2 \in Paths(deriv) :
      LET t1 == Sub(deriv, p1)
          t2 == Sub(deriv, p2)
      IN
        /\ FnCall(t1) /\ FnCall(t2)
        /\ t1.st = "ok" /\ t2.st = "ok"
        /\ t1.kids[1].val = t2.kids[1].val
        /\ Len(Body(t1)) = 1 /\ Body(t1)[1].node = "Variable"
        /\ Body(t1)[1].name \notin BoundParams(t1)
        /\ t1.val.tag = "Int" /\ t2.val.tag = "Int"
        /\ t1.val # t2.val
        /\ t1.val = CallTimeEnv(t1)[Body(t1)[1].name]
        /\ t2.val = CallTimeEnv(t2)[Body(t2)[1].name]

(***************************************************************************)
(* C3. Fatal errors: a Variable with no binding, and a Call whose callee   *)
(* is Void, False or Int, return no value and abort the whole evaluation: *)
(* every eval around it aborts with it, evaluating nothing more, and the  *)
(* host evaluates nothing after it.                                       *)
(***************************************************************************)
C3_FatalErrors ==
    /\ \A p \in Paths(deriv) : LET t == Sub(deriv, p) IN
          /\ (t.node.node = "Variable" /\ ~Bound(t.pre, t.node.name)) =>
                t.st = "panic" /\ t.val = NoValue /\ deriv.st = "panic"
          /\ (/\ t.node.node = "Call" /\ Len(t.kids) >= 1 /\ t.kids[1].st = "ok"
              /\ t.kids[1].val.tag \in {"Void", "False", "Int"}) =>
                /\ t.st = "panic" /\ t.val = NoValue /\ deriv.st = "panic"
                /\ Len(t.kids) = 1
          /\ \A k \in DOMAIN t.kids :
                t.kids[k].st # "ok" =>
                    /\ k = Len(t.kids)
                    /\ t.st = t.kids[k].st
                    /\ t.val = NoValue
    /\ deriv.st \notin {"ok", "none"} =>
          status = "aborted" /\ deriv.val = NoValue /\ ~(ENABLED Next)

\* An unbound Variable was evaluated inside a function body, and the whole
\* evaluation aborted.
C3_Witness ==
    \E p \in Paths(deriv) : LET t == Sub(deriv, p) IN
        /\ t # deriv
        /\ t.node.node = "Variable" /\ ~Bound(t.pre, t.node.name)
        /\ deriv.node.node = "Call"
        /\ status = "aborted"

(***************************************************************************)
(* C4. Arity mismatch: a call of a user Function with p parameters and a   *)
(* argument expressions, p # a, evaluates exactly the first min(p, a)     *)
(* arguments, in order, in the caller's environment, binds the first      *)
(* min(p, a) parameters to their values, and runs the body; it aborts     *)
(* only if an evaluation below it aborts or the stack is exhausted.  It   *)
(* prints one line with the two counts, whatever happens afterwards.      *)
(***************************************************************************)
C4_ArityMismatch ==
    /\ \A p \in Paths(deriv) : LET t == Sub(deriv, p) IN
          (FnCall(t) /\ NParams(t) # NArguments(t)) =>
              /\ t.diag = <<[expected |-> NParams(t), got |-> NArguments(t)]>>
              /\ \A k \in 1..Overlap(t) :
                    (Len(t.kids) >= k /\ AllOk(SubSeq(t.kids, 1, k))) =>
                        /\ Len(t.kids) >= 1 + k
                        /\ t.kids[1 + k].node = t.node.arguments[k]
                        /\ t.kids[1 + k].pre = t.kids[k].post
              /\ (ArgsDone(t) /\ t.st # "overflow") =>
                    /\ \A j \in DOMAIN BodyKids(t) :
                          BodyKids(t)[j].node = Body(t)[j]
                    /\ Len(Body(t)) >= 1 =>
                          /\ Len(BodyKids(t)) >= 1
                          /\ BodyKids(t)[1].pre =
                                BindPrefix(CallTimeEnv(t), t, 1, Overlap(t))
              /\ t.st = "ok" =>
                    Len(t.kids) = 1 + Overlap(t) + Len(Body(t))
              /\ t.st # "ok" =>
                    \/ t.st = "overflow"
                    \/ \E k \in DOMAIN t.kids : t.kids[k].st # "ok"
    /\ deriv.node = FewArgs => deriv.st = "ok" /\ deriv.val = Int(7)

\* A function of two parameters was applied to one argument and returned
\* it; the second parameter has no binding in the body's scope.
C4_Witness ==
    \E p \in Paths(deriv) : LET t == Sub(deriv, p) IN
        /\ FnCall(t) /\ t.st = "ok"
        /\ NParams(t) = 2 /\ NArguments(t) = 1
        /\ t.val = t.kids[2].val
        /\ ~Bound(BodyKids(t)[1].pre, Params(t)[2])

\* Define at the evaluations of the last derivation, and at the host.
C5_Defined ==
    /\ \A p \in Paths(deriv) : LET t == Sub(deriv, p) IN
          (t.node.node = "Define" /\ t.st = "ok") =>
              /\ Len(t.kids) = 1
              /\ t.kids[1].node = t.node.value
              /\ t.kids[1].pre = t.pre
              /\ t.post = [i \in (DOMAIN t.kids[1].post) \cup {t.node.name} |->
                              IF i = t.node.name THEN t.kids[1].val
                              ELSE t.kids[1].post[i]]
              /\ t.val = Void
    /\ (deriv.node.node = "Define" /\ deriv.st = "ok") =>
          /\ env = deriv.post
          /\ Bound(env, deriv.node.name)
          /\ env[deriv.node.name] = deriv.kids[1].val

\* The evaluation that follows a top-level Define on the same environment.
C5_Next ==
    /\ deriv'.pre = env
    /\ (/\ deriv.node.node = "Define" /\ deriv.st = "ok"
        /\ deriv'.node = Variable(deriv.node.name)) =>
          deriv'.st = "ok" /\ deriv'.val = deriv.kids[1].val
    /\ (deriv.node = DefX5 /\ deriv.st = "ok" /\ deriv'.node = VarX) =>
          deriv'.val = Int(5)
    /\ (/\ deriv.node.node = "Define" /\ deriv.st = "ok"
        /\ deriv'.node.node = "Define" /\ deriv'.st = "ok"
        /\ deriv'.node.name = deriv.node.name) =>
          env'[deriv.node.name] = deriv'.kids[1].val

(***************************************************************************)
(* C5. Define persistence: Define(id, expr) evaluates expr in the          *)
(* environment it is given, binds id there to the value and returns Void; *)
(* a top-level Define changes the host's environment itself, so the       *)
(* evaluation that follows starts in it: Variable(id) yields the value    *)
(* ((= x 5) then x gives 5), and a Define of the same id replaces it.     *)
(***************************************************************************)
C5_DefinePersistence == []C5_Defined /\ [][C5_Next]_vars

\* x was 5 and (= x 7) was evaluated at top level: it returned Void and x
\* is 7 in the host's environment.
C5_Witness ==
    /\ deriv.node = DefX7
    /\ Bound(deriv.pre, "x") /\ deriv.pre["x"] = Int(5)
    /\ deriv.st = "ok"
    /\ deriv.val = Void
    /\ env["x"] = Int(7)

(***************************************************************************)
(* C6. Body sequencing: the body statements of a call are evaluated in     *)
(* order on the one scope of the call, each starting in the scope the     *)
(* one before it left; the call yields the last statement's value, Void   *)
(* for an empty body.                                                     *)
(***************************************************************************)
C6_BodySequencing ==
    /\ \A p \in Paths(deriv) : LET t == Sub(deriv, p) IN
          (FnCall(t) /\ ArgsDone(t) /\ t.st # "overflow") =>
              /\ Len(BodyKids(t)) <= Len(Body(t))
              /\ \A j \in DOMAIN BodyKids(t) :
                    /\ BodyKids(t)[j].node = Body(t)[j]
                    /\ j > 1 => BodyKids(t)[j].pre = BodyKids(t)[j - 1].post
                    /\ (j < Len(BodyKids(t))) => BodyKids(t)[j].st = "ok"
              /\ AllOk(BodyKids(t)) =>
                    /\ Len(BodyKids(t)) = Len(Body(t))
                    /\ t.st = "ok"
                    /\ t.val = IF Len(Body(t)) = 0 THEN Void
                               ELSE BodyKids(t)[Len(Body(t))].val
    /\ deriv.node = Identity7 => deriv.st = "ok" /\ deriv.val = Int(7)
    /\ (/\ deriv.node = SeqDef3 /\ Bound(deriv.pre, "add")
        /\ deriv.pre["add"] = InbuiltFunc("add")) =>
          deriv.st = "ok" /\ deriv.val = Int(6)

\* The body (= y a) (add a y), applied to 3 with add registered, gave 6:
\* the second statement saw the y the first one defined.
C6_Witness ==
    /\ deriv.node = SeqDef3
    /\ deriv.st = "ok"
    /\ deriv.val = Int(6)
    /\ ~Bound(deriv.kids[3].pre, "y")
    /\ deriv.kids[4].pre["y"] = Int(3)

(***************************************************************************)
(* C7. Native call: every argument expression is evaluated once, left to   *)
(* right, each in the caller's environment as the one before left it;     *)
(* the native function is invoked once, after them all, with their values *)
(* in order; its result is the call's, and the caller's environment is    *)
(* as the last argument left it.                                          *)
(***************************************************************************)
C7_NativeCall ==
    \A p \in Paths(deriv) : LET t == Sub(deriv, p) IN
        NativeCall(t) =>
            /\ Len(t.kids) <= 1 + NArguments(t)
            /\ \A k \in 1..NArguments(t) :
                  (Len(t.kids) >= 1 + k) =>
                      /\ t.kids[1 + k].node = t.node.arguments[k]
                      /\ t.kids[1 + k].pre = t.kids[k].post
            /\ ~AllOk(t.kids) => t.invoked = <<>>
            /\ AllOk(t.kids) =>
                  /\ Len(t.kids) = 1 + NArguments(t)
                  /\ t.post = t.kids[Len(t.kids)].post
                  /\ t.invoked =
                        <<[f |-> t.kids[1].val.f,
                           args |-> [k \in 1..NArguments(t) |-> t.kids[1 + k].val]]>>
                  /\ t.st = ApplyNative(t.kids[1].val.f,
                               [k \in 1..NArguments(t) |-> t.kids[1 + k].val]).st
                  /\ t.val = ApplyNative(t.kids[1].val.f,
                               [k \in 1..NArguments(t) |-> t.kids[1 + k].val]).val

\* (add (= x 5) x) with x unbound: the second argument saw the first one's
\* Define, add got (Void, 5), and x stays bound in the caller.
C7_Witness ==
    /\ deriv.node = NativeOrder
    /\ ~Bound(deriv.pre, "x")
    /\ deriv.st = "ok"
    /\ deriv.invoked = <<[f |-> "add", args |-> <<Void, Int(5)>>]>>
    /\ deriv.val = Int(5)
    /\ env["x"] = Int(5)

(***************************************************************************)
(* C10. Snapshot before arguments: the new scope of a call is the          *)
(* caller's environment as the callee left it, with the parameters bound; *)
(* the arguments are evaluated after that, in the caller's environment.   *)
(* A Define made by an argument is in the caller's environment after the  *)
(* call and not in the body's scope, unless a parameter binds the same    *)
(* identifier; a Define made by the callee is in both.                    *)
(***************************************************************************)
C10_SnapshotBeforeArgs ==
    \A p \in Paths(deriv) : LET t == Sub(deriv, p) IN
        (FnCall(t) /\ ArgsDone(t)) =>
            /\ t.kids[1].pre = t.pre
            /\ \A k \in 1..Overlap(t) : t.kids[1 + k].pre = t.kids[k].post
            /\ (t.st # "overflow" /\ Len(Body(t)) >= 1) =>
                  /\ Len(BodyKids(t)) >= 1
                  /\ BodyKids(t)[1].pre = BindPrefix(CallTimeEnv(t), t, 1, Overlap(t))
                  /\ \A id \in DOMAIN EnvAfterArgs(t) :
                        (id \notin BoundParams(t)
                            /\ ~Agree(EnvAfterArgs(t), CallTimeEnv(t), id)) =>
                              Agree(BodyKids(t)[1].pre, CallTimeEnv(t), id)
                  /\ \A id \in DOMAIN CallTimeEnv(t) :
                        id \notin BoundParams(t) =>
                            Agree(BodyKids(t)[1].pre, CallTimeEnv(t), id)
            /\ t.st = "ok" => t.post = EnvAfterArgs(t)

\* ((\(a) y) (= y 4)) with y = 2: the body saw 2, the caller has 4.
C10_Witness ==
    /\ deriv.node = ArgDefine
    /\ Bound(deriv.pre, "y") /\ deriv.pre["y"] = Int(2)
    /\ deriv.st = "ok"
    /\ deriv.val = Int(2)
    /\ env["y"] = Int(4)

(***************************************************************************)
(* The parser's host: a source text is typed, parsed, and then parsed      *)
(* again with one whitespace character put between two of its tokens.     *)
(***************************************************************************)
\* Position p (between text[p] and text[p + 1]) is not inside a token: a run
\* of letters, a run of digits, or #f.
TokenBoundary(s, p) ==
    /\ ~(p >= 1 /\ p < Len(s) /\ IsAlphabetic(s[p]) /\ IsAlphabetic(s[p + 1]))
    /\ ~(IsDigit(At(s, p)) /\ IsDigit(At(s, p + 1)))
    /\ ~(At(s, p) = CodePoint("#") /\ At(s, p + 1) = CodePoint("f"))

TypeChar(ch) ==
    /\ phase = "typing"
    /\ ch <= MaxChar
    /\ Len(text) < MaxLen
    /\ text' = Append(text, ch)
    /\ UNCHANGED <<result, orig, phase, evalVars, eqVars>>

ParseText ==
    /\ phase = "typing"
    /\ result' = Parse(text)
    /\ phase' = "parsed"
    /\ UNCHANGED <<text, orig, evalVars, eqVars>>

InsertWhitespace(p, w) ==
    /\ phase = "parsed"
    /\ result.ok
    /\ p <= result.i - 1
    /\ TokenBoundary(text, p)
    /\ orig' = [text |-> text, result |-> result]
    /\ text' = SubSeq(text, 1, p) \o <<w>> \o SubSeq(text, p + 1, Len(text))
    /\ result' = Parse(text')
    /\ phase' = "spaced"
    /\ UNCHANGED <<evalVars, eqVars>>

ParseNext ==
    \/ \E ch \in Alphabet : TypeChar(ch)
    \/ ParseText
    \/ \E p \in 0..MaxLen, w \in {ch \in Alphabet : IsWhitespace(ch)} :
          InsertWhitespace(p, w)

ParseInit ==
    /\ env = EmptyEnv
    /\ deriv = NoDeriv
    /\ status = "running"
    /\ text = <<>>
    /\ result = NoResult
    /\ orig = [text |-> <<>>, result |-> NoResult]
    /\ phase = "typing"
    /\ lhs = Void
    /\ rhs = Void
    /\ eqres = NoComparison

ParseSpec == ParseInit /\ [][ParseNext]_vars

(***************************************************************************)
(* PartialEq on pairs of values, and the native eq on the same pair.       *)
(***************************************************************************)
\* The largest Int compared.
MaxInt == 3

EqValues ==
    {Void, False} \cup {Int(n) : n \in 0..MaxInt}
    \cup {Function(<<>>, <<>>), Function(<<"x">>, <<Variable("x")>>),
          InbuiltFunc("add"), InbuiltFunc("eq")}

EqInit ==
    /\ env = EmptyEnv
    /\ deriv = NoDeriv
    /\ status = "running"
    /\ text = <<>>
    /\ result = NoResult
    /\ orig = [text |-> <<>>, result |-> NoResult]
    /\ phase = "typing"
    /\ lhs \in EqValues
    /\ rhs \in EqValues
    /\ eqres = NoComparison

Compare ==
    /\ ~eqres.done
    /\ eqres' = [done |-> TRUE,
                 ab |-> ValueEq(lhs, rhs),
                 ba |-> ValueEq(rhs, lhs),
                 aa |-> ValueEq(lhs, lhs),
                 native |-> eq(<<lhs, rhs>>).val]
    /\ UNCHANGED <<lhs, rhs, evalVars, parseVars>>

EqSpec == EqInit /\ [][Compare]_vars

(***************************************************************************)
(* C8. Equality: a == b is true exactly when both are Void, both are       *)
(* False, or both are Int with the same number; with a Function or an     *)
(* InbuiltFunc on either side it is false, also for a value and itself.   *)
(* It is symmetric and not reflexive; the native eq answers Void for      *)
(* equal and False for unequal.                                           *)
(***************************************************************************)
SameData(a, b) ==
    \/ a.tag = "Void" /\ b.tag = "Void"
    \/ a.tag = "False" /\ b.tag = "False"
    \/ a.tag = "Int" /\ b.tag = "Int" /\ a.n = b.n

C8_Equality ==
    eqres.done =>
        /\ eqres.ab <=> SameData(lhs, rhs)
        /\ eqres.ab <=> eqres.ba
        /\ ({lhs.tag, rhs.tag} \cap {"Function", "InbuiltFunc"} # {}) => ~eqres.ab
        /\ eqres.aa <=> lhs.tag \in {"Void", "False", "Int"}
        /\ eqres.native = IF eqres.ab THEN Void ELSE False

\* A Function value was compared with itself, and is not equal to it.
C8_Witness ==
    /\ eqres.done
    /\ lhs.tag = "Function"
    /\ lhs = rhs
    /\ ~eqres.ab
    /\ ~eqres.aa
    /\ eqres.native = False

(***************************************************************************)
(* C9. Whitespace: a text that parses still parses, to the same AST, with  *)
(* whitespace put before or after any of its tokens.                      *)
(***************************************************************************)
C9_WhitespaceSkippable ==
    phase = "spaced" => result.ok /\ result.v = orig.result.v

====
